---- MODULE Spec2Model ----
(***************************************************************************)
(* Model of recipes/table-optional.py: table_optional(), the decomposition *)
(* of an optional TABLE constraint into CP-SAT primitives, followed by the *)
(* __main__ demonstration that fixes the option and solves the model.      *)
(*                                                                         *)
(* A CP model is a record [vars, cons, objective].  A decision variable is *)
(* a handle: its index in model.vars.  Positions of `variables` and of a   *)
(* tuple are numbered from 1 here (Python numbers them from 0); values are *)
(* kept as they are, so is_assigned[i][j+1] is Python's is_assigned[i-1][j]*)
(***************************************************************************)
EXTENDS Integers, Sequences, FiniteSets, TLC

\* Bounds of the model.
MaxN == 2
MaxTuples == 3
MaxCells == 4
MaxValue == 2
MaxDom == 2

VARIABLES model, variables, tuples, option, b, possible_values, max_value,
          is_assigned, pc, error, status, solution

vars == <<model, variables, tuples, option, b, possible_values, max_value,
          is_assigned, pc, error, status, solution>>

Range(s) == {s[k] : k \in 1..Len(s)}

Max(S) == CHOOSE x \in S : \A y \in S : y <= x

Min(S) == CHOOSE x \in S : \A y \in S : x <= y

----------------------------------------------------------------------------
(* The modelling API of the engine.                                        *)

\* m.NewIntVar(lo, hi, name): the model with one more variable.
NewIntVar(m, lo, hi, name) ==
    [m EXCEPT !.vars = Append(@, [name |-> name, lo |-> lo, hi |-> hi])]

\* m.NewBoolVar(name): an integer variable of domain 0..1.
NewBoolVar(m, name) == NewIntVar(m, 0, 1, name)

\* model.Add(Sum(xs) == rhs).OnlyEnforceIf(enf); enf = <<>> when the
\* constraint is not conditional.
LinearEq(xs, rhs, enf) ==
    [kind |-> "linear_eq", vars |-> xs, rhs |-> rhs, enf |-> enf]

\* model.AddBoolAnd(lits).OnlyEnforceIf(enf).
BoolAnd(lits, enf) ==
    [kind |-> "bool_and", vars |-> lits, rhs |-> 0, enf |-> enf]

\* AddAll with the constraints replacing those of the model.
AddAll_Overwrite(m, cs) == [m EXCEPT !.cons = cs]

AddAll(m, cs) == [m EXCEPT !.cons = @ \o cs]

\* The model of __main__ when table_optional is called: n integer variables
\* of domain 0..hi and the Boolean option, no constraint, no objective.
RECURSIVE MainVars(_, _)
MainVars(n, hi) ==
    IF n = 0 THEN <<>>
    ELSE Append(MainVars(n - 1, hi), [name |-> <<"v", n - 1>>, lo |-> 0, hi |-> hi])

MainModel(n, hi) ==
    NewBoolVar([vars |-> MainVars(n, hi), cons |-> <<>>, objective |-> <<>>],
               <<"b">>)

----------------------------------------------------------------------------
(* The engine's semantics of a model: the assignments satisfying it.       *)

RECURSIVE SumVars(_, _)
SumVars(a, xs) ==
    IF xs = <<>> THEN 0 ELSE a[Head(xs)] + SumVars(a, Tail(xs))

\* A constraint holds when one of its enforcement literals is false or its
\* body holds.
Holds(c, a) ==
    \/ \E e \in Range(c.enf) : a[e] = 0
    \/ IF c.kind = "linear_eq"
       THEN SumVars(a, c.vars) = c.rhs
       ELSE \A l \in Range(c.vars) : a[l] = 1

\* The largest handle a constraint mentions.
LastVar(c) == Max(Range(c.vars) \cup Range(c.enf))

\* The assignments of variables 1..k that satisfy every constraint that
\* mentions only these variables.
RECURSIVE Extend(_, _)
Extend(m, k) ==
    IF k = 0 THEN {<<>>}
    ELSE LET decided == {c \in Range(m.cons) : LastVar(c) = k}
         IN {a \in {Append(p, x) : p \in Extend(m, k - 1),
                                   x \in m.vars[k].lo .. m.vars[k].hi} :
                \A c \in decided : Holds(c, a)}

\* Every assignment of all the variables that satisfies all the constraints.
Solutions(m) == Extend(m, Len(m.vars))

Objective(m, a) == SumVars(a, m.objective)

\* The solutions the solver may return: those of least objective.
Optimal(m) ==
    LET S == Solutions(m)
    IN IF S = {} THEN {}
       ELSE LET best == Min({Objective(m, a) : a \in S})
            IN {a \in S : Objective(m, a) = best}

----------------------------------------------------------------------------
(* The inputs of a call.                                                   *)

\* The sequences of length n over S.
RECURSIVE SeqsOf(_, _)
SeqsOf(S, n) ==
    IF n = 0 THEN {<<>>}
    ELSE {Append(s, x) : s \in SeqsOf(S, n - 1), x \in S}

\* The tuple lists the preconditions allow for n variables: 1..MaxTuples
\* tuples of length n over 0..MaxValue, MaxCells values at most in all.
ValidTuples(n) ==
    UNION {SeqsOf(SeqsOf(0 .. MaxValue, n), t) :
              t \in {t \in 1 .. MaxTuples : n * t <= MaxCells}}

\* Any tuple lists, well-formed or not: at most count tuples of any lengths
\* in 0..MaxN+1 over -1..MaxValue, at most cells values in all.
RECURSIVE AnyTuples(_, _)
AnyTuples(count, cells) ==
    IF count = 0 THEN {<<>>}
    ELSE {<<>>} \cup
         UNION {{<<t>> \o rest : t \in SeqsOf(-1 .. MaxValue, len),
                                 rest \in AnyTuples(count - 1, cells - len)} :
                  len \in 0 .. Min({cells, MaxN + 1})}

\* The state of __main__ when it calls table_optional(m, v, t, b).
Call(n, hi, ts) ==
    /\ model = MainModel(n, hi)
    /\ variables = [i \in 1 .. n |-> i]
    /\ option = n + 1
    /\ tuples = ts
    /\ b = <<>>
    /\ possible_values = <<>>
    /\ max_value = -1
    /\ is_assigned = <<>>
    /\ pc = "validate"
    /\ error = "none"
    /\ status = "none"
    /\ solution = <<>>

\* Calls that meet the preconditions.
Init ==
    \E n \in 1 .. MaxN, hi \in 0 .. MaxDom :
        \E ts \in ValidTuples(n) : Call(n, hi, ts)

\* Calls with any arguments of the declared types.
InitAny ==
    \E n \in 0 .. MaxN :
        \E ts \in AnyTuples(MaxTuples, MaxCells - 1) : Call(n, MaxDom, ts)

----------------------------------------------------------------------------
(* table_optional                                                          *)

\* AssertsHold without `assert i >= 0`.
AssertsHold_NoSignCheck(vs, ts) ==
    /\ Len(vs) > 0
    /\ Len(ts) > 0
    /\ Len(vs) = Len(ts[1])

\* The assertions on the shape of the arguments.  The isinstance assertions
\* hold of every call of the model, whose arguments have the declared types.
AssertsHold(vs, ts) ==
    /\ Len(vs) > 0
    /\ Len(ts) > 0
    /\ \A t \in Range(ts) : \A i \in Range(t) : i >= 0
    /\ Len(vs) = Len(ts[1])

Validate ==
    /\ pc = "validate"
    /\ AssertsHold(variables, tuples)
    /\ pc' = "new_b"
    /\ UNCHANGED <<model, variables, tuples, option, b, possible_values,
                   max_value, is_assigned, error, status, solution>>

\* A failed assertion leaves the function before it touches the model.
Reject ==
    /\ pc = "validate"
    /\ ~AssertsHold(variables, tuples)
    /\ pc' = "raised"
    /\ error' = "AssertionError"
    /\ UNCHANGED <<model, variables, tuples, option, b, possible_values,
                   max_value, is_assigned, status, solution>>

RECURSIVE NewBoolVars(_, _)
NewBoolVars(m, names) ==
    IF names = <<>> THEN m
    ELSE NewBoolVars(NewBoolVar(m, Head(names)), Tail(names))

\* b = [model.NewBoolVar(f"b[{i}]") for i in range(len(tuples))]
NewB ==
    /\ pc = "new_b"
    /\ model' = NewBoolVars(model, [k \in 1 .. Len(tuples) |-> <<"b", k - 1>>])
    /\ b' = [k \in 1 .. Len(tuples) |-> Len(model.vars) + k]
    /\ pc' = "possible_values"
    /\ UNCHANGED <<variables, tuples, option, possible_values, max_value,
                   is_assigned, error, status, solution>>

\* max(max(t) for t in tuples)
MaxOfTuples(ts) == Max(UNION {Range(t) : t \in Range(ts)})

\* PossibleValuesOf reading the first tuple only.
PossibleValuesOf_FirstTuple(n, ts) == [i \in 1 .. n |-> {ts[1][i]}]

\* possible_values[i]: the values found at position i of some tuple.
PossibleValuesOf(n, ts) ==
    [i \in 1 .. n |-> {t[i] : t \in {u \in Range(ts) : i <= Len(u)}}]

PossibleValues ==
    /\ pc = "possible_values"
    /\ \A t \in Range(tuples) : t # <<>> /\ Len(t) <= Len(variables)
    /\ max_value' = MaxOfTuples(tuples)
    /\ possible_values' = PossibleValuesOf(Len(variables), tuples)
    /\ pc' = "new_is_assigned"
    /\ UNCHANGED <<model, variables, tuples, option, b, is_assigned, error,
                   status, solution>>

\* max(t) of an empty tuple raises ValueError, after b was created.
RaiseValueError ==
    /\ pc = "possible_values"
    /\ \E t \in Range(tuples) : t = <<>>
    /\ pc' = "raised"
    /\ error' = "ValueError"
    /\ UNCHANGED <<model, variables, tuples, option, b, possible_values,
                   max_value, is_assigned, status, solution>>

\* possible_values[i] of a position past the last variable raises KeyError,
\* after b was created.
RaiseKeyError ==
    /\ pc = "possible_values"
    /\ \A t \in Range(tuples) : t # <<>>
    /\ \E t \in Range(tuples) : Len(t) > Len(variables)
    /\ pc' = "raised"
    /\ error' = "KeyError"
    /\ UNCHANGED <<model, variables, tuples, option, b, possible_values,
                   max_value, is_assigned, status, solution>>

\* The names of is_assigned[i][j], i in range(n), j in range(mv + 1), in the
\* order of their creation.
IsAssignedNames(n, mv) ==
    [k \in 1 .. n * (mv + 1) |->
        <<"is_assigned", (k - 1) \div (mv + 1), (k - 1) % (mv + 1)>>]

\* The handles of is_assigned when the model holds base variables already.
IsAssignedHandles(base, n, mv) ==
    [i \in 1 .. n |-> [j \in 1 .. mv + 1 |-> base + (i - 1) * (mv + 1) + j]]

NewIsAssigned ==
    /\ pc = "new_is_assigned"
    /\ model' = NewBoolVars(model, IsAssignedNames(Len(variables), max_value))
    /\ is_assigned' = IsAssignedHandles(Len(model.vars), Len(variables), max_value)
    /\ pc' = "prune"
    /\ UNCHANGED <<variables, tuples, option, b, possible_values, max_value,
                   error, status, solution>>

\* The pairs (i, j) of range(n) x range(mv + 1) in the order of the loops.
Cells(n, mv) ==
    [k \in 1 .. n * (mv + 1) |->
        [i |-> ((k - 1) \div (mv + 1)) + 1, j |-> (k - 1) % (mv + 1)]]

\* model.Add(is_assigned[i][j] == 0).OnlyEnforceIf(option), for the values j
\* found at position i of no tuple.
PruneCons(ia, pv, mv, opt) ==
    LET absent == SelectSeq(Cells(Len(ia), mv), LAMBDA c : c.j \notin pv[c.i])
    IN [k \in 1 .. Len(absent) |->
           LinearEq(<<ia[absent[k].i][absent[k].j + 1]>>, 0, <<opt>>)]

Prune ==
    /\ pc = "prune"
    /\ model' = AddAll(model, PruneCons(is_assigned, possible_values, max_value, option))
    /\ pc' = "one_value"
    /\ UNCHANGED <<variables, tuples, option, b, possible_values, max_value,
                   is_assigned, error, status, solution>>

\* OneValueCons without OnlyEnforceIf(option).
OneValueCons_Unconditional(ia, opt) ==
    [i \in 1 .. Len(ia) |-> LinearEq(ia[i], 1, <<>>)]

\* model.Add(Sum(is_assigned[i]) == 1).OnlyEnforceIf(option)
OneValueCons(ia, opt) ==
    [i \in 1 .. Len(ia) |-> LinearEq(ia[i], 1, <<opt>>)]

OneValue ==
    /\ pc = "one_value"
    /\ model' = AddAll(model, OneValueCons(is_assigned, option))
    /\ pc' = "link"
    /\ UNCHANGED <<variables, tuples, option, b, possible_values, max_value,
                   is_assigned, error, status, solution>>

\* LinkCons with variables[i] == j + 1.
LinkCons_OffByOne(vs, ia, mv) ==
    LET cells == Cells(Len(vs), mv)
    IN [k \in 1 .. Len(cells) |->
           LinearEq(<<vs[cells[k].i]>>, cells[k].j + 1,
                    <<ia[cells[k].i][cells[k].j + 1]>>)]

\* LinkCons enforced only if the option is true as well.
LinkCons_GatedByOption(vs, ia, mv) ==
    LET cells == Cells(Len(vs), mv)
    IN [k \in 1 .. Len(cells) |->
           LinearEq(<<vs[cells[k].i]>>, cells[k].j,
                    <<ia[cells[k].i][cells[k].j + 1], Len(vs) + 1>>)]

\* model.Add(variables[i] == j).OnlyEnforceIf(is_assigned[i][j])
LinkCons(vs, ia, mv) ==
    LET cells == Cells(Len(vs), mv)
    IN [k \in 1 .. Len(cells) |->
           LinearEq(<<vs[cells[k].i]>>, cells[k].j,
                    <<ia[cells[k].i][cells[k].j + 1]>>)]

Link ==
    /\ pc = "link"
    /\ model' = AddAll(model, LinkCons(variables, is_assigned, max_value))
    /\ pc' = "table"
    /\ UNCHANGED <<variables, tuples, option, b, possible_values, max_value,
                   is_assigned, error, status, solution>>

\* TableCons over range(len(t) - 1).
TableCons_Truncated(ts, ia, bs) ==
    [k \in 1 .. Len(ts) |->
        BoolAnd([j \in 1 .. Len(ts[k]) - 1 |-> ia[j][ts[k][j] + 1]], <<bs[k]>>)]

\* TableCons reading tuples[i - 1] for b[i].
TableCons_PreviousTuple(ts, ia, bs) ==
    [k \in 1 .. Len(ts) |->
        LET t == ts[IF k = 1 THEN Len(ts) ELSE k - 1]
        IN BoolAnd([j \in 1 .. Len(t) |-> ia[j][t[j] + 1]], <<bs[k]>>)]

\* model.AddBoolAnd([is_assigned[j][t[j]] for j in range(len(t))])
\*      .OnlyEnforceIf(b[i])
TableCons(ts, ia, bs) ==
    [k \in 1 .. Len(ts) |->
        BoolAnd([j \in 1 .. Len(ts[k]) |-> ia[j][ts[k][j] + 1]], <<bs[k]>>)]

Table ==
    /\ pc = "table"
    /\ model' = AddAll(model, TableCons(tuples, is_assigned, b))
    /\ pc' = "one_tuple"
    /\ UNCHANGED <<variables, tuples, option, b, possible_values, max_value,
                   is_assigned, error, status, solution>>

\* OneTupleCons forgotten.
OneTupleCons_Missing(bs, opt) == <<>>

\* model.Add(Sum(b) == 1).OnlyEnforceIf(option)
OneTupleCons(bs, opt) == <<LinearEq(bs, 1, <<opt>>)>>

OneTuple ==
    /\ pc = "one_tuple"
    /\ model' = AddAll(model, OneTupleCons(b, option))
    /\ pc' = "returned"
    /\ UNCHANGED <<variables, tuples, option, b, possible_values, max_value,
                   is_assigned, error, status, solution>>

----------------------------------------------------------------------------
(* __main__ after the call                                                 *)

\* m.Minimize(Sum(v))
Minimize ==
    /\ pc = "returned"
    /\ model' = [model EXCEPT !.objective = variables]
    /\ pc' = "fix"
    /\ UNCHANGED <<variables, tuples, option, b, possible_values, max_value,
                   is_assigned, error, status, solution>>

\* m.Add(b == 1), or m.Add(b == 0) to deactivate the TABLE constraint.
FixOption ==
    /\ pc = "fix"
    /\ \E on \in {0, 1} :
          model' = AddAll(model, <<LinearEq(<<option>>, on, <<>>)>>)
    /\ pc' = "solve"
    /\ UNCHANGED <<variables, tuples, option, b, possible_values, max_value,
                   is_assigned, error, status, solution>>

\* status = solver.Solve(m): an optimal solution, or INFEASIBLE.
Solve ==
    /\ pc = "solve"
    /\ LET best == Optimal(model)
       IN IF best = {}
          THEN status' = "INFEASIBLE" /\ solution' = <<>>
          ELSE status' = "OPTIMAL" /\ solution' \in best
    /\ pc' = "solved"
    /\ UNCHANGED <<model, variables, tuples, option, b, possible_values,
                   max_value, is_assigned, error>>

----------------------------------------------------------------------------
\* The program on calls that meet the preconditions.
Next ==
    \/ Validate
    \/ NewB
    \/ PossibleValues
    \/ NewIsAssigned
    \/ Prune
    \/ OneValue
    \/ Link
    \/ Table
    \/ OneTuple
    \/ Minimize
    \/ FixOption
    \/ Solve

Spec == Init /\ [][Next]_vars

\* table_optional on any call.
NextCall ==
    \/ Validate
    \/ Reject
    \/ NewB
    \/ PossibleValues
    \/ RaiseValueError
    \/ RaiseKeyError
    \/ NewIsAssigned
    \/ Prune
    \/ OneValue
    \/ Link
    \/ Table
    \/ OneTuple

SpecCall == InitAny /\ [][NextCall]_vars

----------------------------------------------------------------------------
(* Reading an assignment of the model's variables.                         *)

N == Len(variables)

\* The values of `variables`, position by position.
VarsOf(a) == [i \in 1 .. N |-> a[variables[i]]]

OptionOn(a) == a[option] = 1

BOn(a, k) == a[b[k]] = 1

IsAssignedOn(a, i, j) == a[is_assigned[i][j + 1]] = 1

\* The declared domain of the variable of handle x.
Dom(x) == model.vars[x].lo .. model.vars[x].hi

\* Every assignment of `variables` within their declared domains.
RECURSIVE DomainProduct(_)
DomainProduct(n) ==
    IF n = 0 THEN {<<>>}
    ELSE {Append(v, x) : v \in DomainProduct(n - 1), x \in Dom(variables[n])}

\* The tuples whose values lie in the declared domains.
TuplesInDomains ==
    {t \in Range(tuples) : \A i \in 1 .. N : t[i] \in Dom(variables[i])}

RECURSIVE SumSeq(_)
SumSeq(s) == IF s = <<>> THEN 0 ELSE Head(s) + SumSeq(Tail(s))

\* The value __main__ fixed the option to.
FixedTo(on) ==
    /\ pc \in {"solve", "solved"}
    /\ model.cons[Len(model.cons)] = LinearEq(<<option>>, on, <<>>)

\* The preconditions of the contract.
WellFormed ==
    /\ AssertsHold(variables, tuples)
    /\ \A t \in Range(tuples) : Len(t) = N

----------------------------------------------------------------------------
\* C1. Soundness: on a call that meets the preconditions, every assignment
\* that satisfies the emitted constraints and has option true has
\* `variables` equal, position by position, to a member of `tuples`; so has
\* the solution the solver returns once the option is fixed true.
C1_Soundness ==
    /\ pc = "returned" /\ WellFormed =>
          \A a \in Solutions(model) :
              OptionOn(a) => VarsOf(a) \in Range(tuples)
    /\ pc = "solved" /\ FixedTo(1) /\ status = "OPTIMAL" =>
          VarsOf(solution) \in Range(tuples)

C1_Witness ==
    /\ pc = "returned"
    /\ N = 2
    /\ Len(tuples) = 2
    /\ tuples[1] # tuples[2]
    /\ \E a \in Solutions(model) : OptionOn(a) /\ VarsOf(a) = tuples[2]

\* C2. Non-restriction when disabled: with option false every assignment of
\* `variables` within the declared domains extends to an assignment that
\* satisfies the emitted constraints, and fixing the option false never
\* makes the model infeasible.
C2_NonRestriction ==
    /\ pc = "returned" /\ WellFormed =>
          DomainProduct(N) \subseteq
              {VarsOf(a) : a \in {s \in Solutions(model) : ~OptionOn(s)}}
    /\ pc = "solved" /\ FixedTo(0) => status = "OPTIMAL"

C2_Witness ==
    /\ pc = "returned"
    /\ N = 2
    /\ \E a \in Solutions(model) :
          /\ ~OptionOn(a)
          /\ VarsOf(a) \notin Range(tuples)
          /\ \E i \in 1 .. N : VarsOf(a)[i] > max_value
    /\ \E a \in Solutions(model) : ~OptionOn(a) /\ VarsOf(a) \in Range(tuples)

\* C5. Completeness: the assignments of `variables` feasible with option
\* true are exactly the tuples within the declared domains; with the option
\* fixed true the solver returns a tuple of least sum among them (in the
\* demonstration (0,1,2,3,4), of sum 10), and INFEASIBLE when there is none.
C5_Completeness ==
    /\ pc = "returned" /\ WellFormed =>
          {VarsOf(a) : a \in {s \in Solutions(model) : OptionOn(s)}}
              = TuplesInDomains
    /\ pc = "solved" /\ FixedTo(1) =>
          IF TuplesInDomains = {}
          THEN status = "INFEASIBLE"
          ELSE /\ status = "OPTIMAL"
               /\ VarsOf(solution) \in TuplesInDomains
               /\ SumSeq(VarsOf(solution))
                     = Min({SumSeq(t) : t \in TuplesInDomains})

C5_Witness ==
    /\ pc = "solved"
    /\ FixedTo(1)
    /\ N = 2
    /\ Len(tuples) = 2
    /\ TuplesInDomains = Range(tuples)
    /\ SumSeq(tuples[2]) < SumSeq(tuples[1])
    /\ status = "OPTIMAL"
    /\ VarsOf(solution) = tuples[2]

\* C6. Exactly one tuple indicator: in every assignment satisfying the
\* emitted constraints with option true exactly one b[k] is true, and for
\* that k every position i has is_assigned[i][tuples[k][i]] true and
\* variables[i] = tuples[k][i].
C6_ExactlyOneIndicator ==
    pc = "returned" /\ WellFormed =>
        \A a \in Solutions(model) :
            OptionOn(a) =>
                /\ Cardinality({k \in 1 .. Len(tuples) : BOn(a, k)}) = 1
                /\ \A k \in 1 .. Len(tuples) :
                      BOn(a, k) =>
                          \A i \in 1 .. N :
                              /\ IsAssignedOn(a, i, tuples[k][i])
                              /\ a[variables[i]] = tuples[k][i]

C6_Witness ==
    /\ pc = "returned"
    /\ Len(tuples) = 3
    /\ \E a \in Solutions(model) : OptionOn(a) /\ BOn(a, 2) /\ ~BOn(a, 1)

\* C8. Value indicators track the variables when enabled: in every
\* assignment satisfying the emitted constraints with option true,
\* is_assigned[i][j] is true iff variables[i] = j, for every position i and
\* every j in 0..max_value; exactly one is_assigned[i][*] is true, and none
\* for a value j found at position i of no tuple.
C8_ValueIndicators ==
    pc = "returned" /\ WellFormed =>
        \A a \in Solutions(model) :
            OptionOn(a) =>
                \A i \in 1 .. N :
                    /\ \A j \in 0 .. max_value :
                          IsAssignedOn(a, i, j) <=> a[variables[i]] = j
                    /\ Cardinality({j \in 0 .. max_value : IsAssignedOn(a, i, j)}) = 1
                    /\ \A j \in 0 .. max_value :
                          (\A t \in Range(tuples) : t[i] # j) =>
                              ~IsAssignedOn(a, i, j)

C8_Witness ==
    /\ pc = "returned"
    /\ N = 2
    /\ max_value = MaxValue
    /\ \E i \in 1 .. N : \A t \in Range(tuples) : t[i] # max_value
    /\ \E a \in Solutions(model) : OptionOn(a) /\ IsAssignedOn(a, 1, max_value)

\* C9 as claimed: with option true, b[k] is true iff `variables` equals
\* tuples[k], for every tuple list, one that repeats a tuple included.
C9_IndicatorIffRealized ==
    pc = "returned" /\ WellFormed =>
        \A a \in Solutions(model) :
            OptionOn(a) =>
                \A k \in 1 .. Len(tuples) :
                    BOn(a, k) <=> VarsOf(a) = tuples[k]

\* C9 as amended: with option true, b[k] true implies that `variables`
\* equals tuples[k], and exactly one index among those that hold the tuple
\* `variables` equals has its b true; so b[k] is true iff `variables` equals
\* tuples[k] whenever tuples[k] appears at no other index.
C9_IndicatorOfRealized ==
    pc = "returned" /\ WellFormed =>
        \A a \in Solutions(model) :
            OptionOn(a) =>
                /\ \A k \in 1 .. Len(tuples) :
                      BOn(a, k) => VarsOf(a) = tuples[k]
                /\ Cardinality({k \in 1 .. Len(tuples) :
                                   VarsOf(a) = tuples[k] /\ BOn(a, k)}) = 1
                /\ \A k \in 1 .. Len(tuples) :
                      (\A l \in 1 .. Len(tuples) : tuples[l] = tuples[k] => l = k)
                          => (BOn(a, k) <=> VarsOf(a) = tuples[k])

C9_Witness ==
    /\ pc = "returned"
    /\ Len(tuples) = 3
    /\ tuples[1] = tuples[3]
    /\ tuples[2] # tuples[1]
    /\ \E a \in Solutions(model) :
          OptionOn(a) /\ VarsOf(a) = tuples[1] /\ BOn(a, 3) /\ ~BOn(a, 1)
    /\ \E a \in Solutions(model) :
          OptionOn(a) /\ VarsOf(a) = tuples[2] /\ BOn(a, 2)

\* C10. Unconditional linking: in every assignment satisfying the emitted
\* constraints, whatever the option, is_assigned[i][j] true implies
\* variables[i] = j and b[k] true implies variables[i] = tuples[k][i] at
\* every position; so no position has two is_assigned[i][*] true and no two
\* b of distinct tuples are both true.
C10_UnconditionalLinking ==
    pc = "returned" /\ WellFormed =>
        \A a \in Solutions(model) :
            /\ \A i \in 1 .. N : \A j \in 0 .. max_value :
                  IsAssignedOn(a, i, j) => a[variables[i]] = j
            /\ \A k \in 1 .. Len(tuples) :
                  BOn(a, k) => \A i \in 1 .. N : a[variables[i]] = tuples[k][i]
            /\ \A i \in 1 .. N :
                  Cardinality({j \in 0 .. max_value : IsAssignedOn(a, i, j)}) <= 1
            /\ \A k, l \in 1 .. Len(tuples) :
                  BOn(a, k) /\ BOn(a, l) => tuples[k] = tuples[l]

C10_Witness ==
    /\ pc = "returned"
    /\ N = 2
    /\ \E a \in Solutions(model) :
          /\ ~OptionOn(a)
          /\ \E k \in 1 .. Len(tuples) : BOn(a, k)
    /\ \E a \in Solutions(model) :
          /\ ~OptionOn(a)
          /\ \A k \in 1 .. Len(tuples) : ~BOn(a, k)
          /\ IsAssignedOn(a, 1, 0)
          /\ \A j \in 0 .. max_value : ~IsAssignedOn(a, 2, j)

----------------------------------------------------------------------------
IsPrefix(s, t) == Len(s) <= Len(t) /\ SubSeq(t, 1, Len(s)) = s

\* C3. Tuple-length rejection: a call in which some tuple, at any index, has
\* a length other than len(variables) is rejected with the model as it was
\* before the call.
C3_TupleLengthRejection ==
    (\E t \in Range(tuples) : Len(t) # N) =>
        /\ model = MainModel(N, MaxDom)
        /\ pc # "returned"

\* C4. Fail-fast on empty or negative input: a call with no variable, no
\* tuple or a negative tuple element is rejected by an assertion and the
\* model stays as it was before the call.
C4_FailFast ==
    (\/ N = 0
     \/ Len(tuples) = 0
     \/ \E t \in Range(tuples) : \E x \in Range(t) : x < 0) =>
        /\ pc \in {"validate", "raised"}
        /\ pc = "raised" => error = "AssertionError"
        /\ model = MainModel(N, MaxDom)

C4_Witness ==
    /\ pc = "raised"
    /\ error = "AssertionError"
    /\ N = 2
    /\ Len(tuples) = 2
    /\ Len(tuples[1]) = N
    /\ \A x \in Range(tuples[1]) : x >= 0
    /\ \E x \in Range(tuples[2]) : x < 0
    /\ model = MainModel(N, MaxDom)

\* C7. Side effects of a successful call: every step of table_optional only
\* appends to the variables and the constraints of the model, and when it
\* returns the model holds, after the variables it held at the call and
\* unchanged, exactly |tuples| Boolean variables b[k] and then exactly
\* N x (maxValue + 1) Boolean variables is_assigned[i][j].
C7_Step ==
    pc \notin {"returned", "fix", "solve", "solved"} =>
        /\ IsPrefix(model.vars, model'.vars)
        /\ IsPrefix(model.cons, model'.cons)
        /\ model'.objective = model.objective
        /\ pc' = "returned" =>
              LET T == Len(tuples)
                  mv == MaxOfTuples(tuples)
                  added == (N + 2) .. Len(model'.vars)
              IN /\ Len(model'.vars) = (N + 1) + T + N * (mv + 1)
                 /\ \A x \in added :
                       model'.vars[x].lo = 0 /\ model'.vars[x].hi = 1
                 /\ \A x \in 1 .. N :
                       model'.vars[x] = [name |-> <<"v", x - 1>>, lo |-> 0,
                                         hi |-> model'.vars[1].hi]
                 /\ model'.vars[N + 1] = [name |-> <<"b">>, lo |-> 0, hi |-> 1]
                 /\ b' = [k \in 1 .. T |-> N + 1 + k]
                 /\ \A k \in 1 .. T : model'.vars[b'[k]].name = <<"b", k - 1>>
                 /\ Len(is_assigned') = N
                 /\ \A i \in 1 .. N :
                       /\ Len(is_assigned'[i]) = mv + 1
                       /\ \A j \in 0 .. mv :
                             /\ is_assigned'[i][j + 1] \in added \ Range(b')
                             /\ model'.vars[is_assigned'[i][j + 1]].name
                                   = <<"is_assigned", i - 1, j>>

C7_SideEffects == [][C7_Step]_vars

C7_Witness ==
    /\ pc = "returned"
    /\ N = 2
    /\ Len(tuples) = 2
    /\ max_value = MaxValue
    /\ Len(model.vars) = 3 + 2 + 2 * (MaxValue + 1)
    /\ Len(model.cons) > 2 * (MaxValue + 1) + 2 + 2 + 1

====
